---- MODULE Spec2Model ----
(***************************************************************************)
(* Model of xenonpy.utils.datatools.DataSet: a directory of pickle files   *)
(* named <key>.@<generation>.pkl.<tag> and the in-memory file index        *)
(* (self._files, a defaultdict(list)) that one DataSet instance keeps.     *)
(***************************************************************************)
EXTENDS Integers, Sequences, FiniteSets, TLC

\* ------------------------------------------------------------------ bounds
MaxClock == 3        \* modification times run 1..MaxClock (caps the writes)
MaxInitFiles == 2    \* files found in the directory at the first construction
MaxItems == 2        \* positional items of one save call

\* ------------------------------------------------------------ value domains
Names == {"a"}                    \* keyword names used by the callers
Keys == {"unnamed"} \cup Names    \* logical keys of the index
Values == {"A", "DF"}             \* "DF" stands for a pandas DataFrame

\* An optional argument: <<>> is Python None, <<x>> is the value x
NoneV == <<>>
Some(x) == <<x>>

\* isinstance(data, pd.DataFrame)
IsDataFrame(v) == v = "DF"

\* A file of the store directory: name <fn>.@<gen>.pkl.<tag>, or
\* @<gen>.pkl.<tag> when fn is empty.
Path(fn, gen, tag) == [fn |-> fn, gen |-> gen, tag |-> tag]

\* '.'.join(f.name.split('.')[:-3]), with '' normalised to 'unnamed'
KeyOf(p) == IF p.fn = "" THEN "unnamed" ELSE p.fn

\* int(re.findall(r'@\d+\.', str(f))[-1][1:-1])
GenOf(p) == p.gen

LastOf(s) == s[Len(s)]

RECURSIVE SeqToSet(_)
SeqToSet(s) == IF s = <<>> THEN {} ELSE {Head(s)} \cup SeqToSet(Tail(s))

\* self._files[k] of a defaultdict(list): a missing key is created empty
Touch(f, k) == IF k \in DOMAIN f THEN f ELSE [x \in DOMAIN f \cup {k} |-> IF x = k THEN <<>> ELSE f[x]]

\* del self._files[k]
DelKey(f, k) == [x \in DOMAIN f \ {k} |-> f[x]]

\* --------------------------------------------------------------- the state
VARIABLES
  disk,       \* the files of the store directory: path -> [val, mtime]
  dirExists,  \* self._path.exists()
  files,      \* self._files: key -> sequence of paths
  clock,      \* the newest modification time stamped so far
  op,         \* the last call made on the store, with its arguments
  ret,        \* what that call returned or raised
  assigned,   \* per key, the generation this instance's latest save chose (0: none yet)
  sub,        \* the child store cached on the instance by __getattr__
  subdisk,    \* the files of the child's directory <store directory>/<name>
  subDirExists, \* whether the child's directory exists
  files2,     \* self._files of a second instance bound to the same directory
  loader      \* a Loader object: its type, its location, the catalog files at hand

vars == <<disk, dirExists, files, clock, op, ret, assigned, sub, subdisk, subDirExists, files2, loader>>

\* what the operations of one store leave alone
others == <<sub, subdisk, subDirExists, files2, loader>>

\* ------------------------------------------------------- results of a call
RetNone == [kind |-> "none"]
RetVal(v) == [kind |-> "value", val |-> v]
RetList(vs) == [kind |-> "list", vals |-> vs]
RetErr(e) == [kind |-> "error", err |-> e]
RetMap(m) == [kind |-> "map", map |-> m]

\* ------------------------------------------------------ _make_file_index
EmptyIndex == [k \in {} |-> <<>>]
EmptyDir == [p \in {} |-> [val |-> "A", mtime |-> 0]]

FilesOfKey(d, k) == {p \in DOMAIN d : KeyOf(p) = k}

\* the orders in which iterdir may list the files S
Orders(S) == {s \in [1..Cardinality(S) -> S] : \A p \in S : \E i \in DOMAIN s : s[i] = p}

\* fn == 'unnamed': a file with the legacy name unnamed.@<g>.pkl.<tag>
IsLegacy(p) == p.fn = "unnamed"

\* '.'.join(f.name.split('.')[-3:]) under the same parent
NewPath(p) == Path("", p.gen, p.tag)

\* f.rename(new_path); on POSIX a file at new_path is replaced silently
Rename(d, p, q) == [x \in (DOMAIN d \ {p}) \cup {q} |-> IF x = q THEN d[p] ELSE d[x]]

\* the state threaded through the loop over the listed files
ScanState(d, f, w) == [disk |-> d, files |-> f, warned |-> w]

\* for f in files: ... self._files[fn].append(f); the legacy file is warned
\* about, renamed, and entered by its new path
RECURSIVE Scan(_, _)
Scan(st, L) ==
  IF L = <<>> THEN st
  ELSE LET p == Head(L)
           k == KeyOf(p)
           f1 == Touch(st.files, k)
       IN IF IsLegacy(p)
            THEN Scan(ScanState(Rename(st.disk, p, NewPath(p)),
                                [f1 EXCEPT ![k] = Append(@, NewPath(p))],
                                Append(st.warned, p)),
                      Tail(L))
            ELSE Scan(ScanState(st.disk, [f1 EXCEPT ![k] = Append(@, p)], st.warned), Tail(L))

\* one step of the stable sort: p goes behind every entry that is not newer
RECURSIVE InsertByMtime(_, _, _)
InsertByMtime(d, s, p) ==
  IF s = <<>> THEN <<p>>
  ELSE IF d[Head(s)].mtime <= d[p].mtime THEN <<Head(s)>> \o InsertByMtime(d, Tail(s), p)
  ELSE <<p>> \o s

\* fs.sort(key=lambda f: getmtime(str(f))): stable, entries of equal time
\* keep the order in which they were appended
RECURSIVE SortByMtime(_, _)
SortByMtime(d, s) ==
  IF s = <<>> THEN <<>>
  ELSE InsertByMtime(d, SortByMtime(d, SubSeq(s, 1, Len(s) - 1)), LastOf(s))

\* _make_file_index() on the directory d: one outcome for each order in which
\* iterdir may list the files; disk is the directory after the renames, files
\* the index built, warned the files a warning was raised for
MakeFileIndex(d) ==
  {LET st == Scan(ScanState(d, EmptyIndex, <<>>), L)
   IN ScanState(st.disk, [k \in DOMAIN st.files |-> SortByMtime(st.disk, st.files[k])], st.warned) :
     L \in Orders(DOMAIN d)}

\* -------------------------------------------------------------- _load_data
Exists(d, p) == p \in DOMAIN d
LoadData(d, p) == d[p].val

\* -------------------------------------------------------------- _save_data
SaveFile(fn, num, v) == Path(fn, num, IF IsDataFrame(v) THEN "pd_" ELSE "z")

WriteFile(d, p, v, t) == [x \in DOMAIN d \cup {p} |-> IF x = p THEN [val |-> v, mtime |-> t] ELSE d[x]]

\* ------------------------------------------------------------------- save
\* a slip: the count of the key's entries taken for its latest generation
GetFileIndex_Count(f, k) == Len(f[k])

\* _get_file_index(fn), on the index after self._files[fn] was touched
GetFileIndex(f, k) == IF Len(f[k]) # 0 THEN GenOf(LastOf(f[k])) ELSE 0

\* the state threaded through the loops of save
SaveState(d, f, t, w) == [disk |-> d, files |-> f, clock |-> t, written |-> w]

\* a slip: the new handle is put in front of the key's sequence
SaveOne_Front(st, k, fn, num, v) ==
  LET p == SaveFile(fn, num, v)
      f1 == Touch(st.files, k)
  IN SaveState(WriteFile(st.disk, p, v, st.clock + 1),
               [f1 EXCEPT ![k] = <<p>> \o @],
               st.clock + 1,
               Append(st.written, p))

\* one pass of a loop body: _save_data(v, ...) then self._files[k].append(f)
SaveOne(st, k, fn, num, v) ==
  LET p == SaveFile(fn, num, v)
      f1 == Touch(st.files, k)
  IN SaveState(WriteFile(st.disk, p, v, st.clock + 1),
               [f1 EXCEPT ![k] = Append(@, p)],
               st.clock + 1,
               Append(st.written, p))

\* a slip: num is not counted up after the first pass
RECURSIVE SaveUnnamedLoop_NoCount(_, _, _)
SaveUnnamedLoop_NoCount(st, num, items) ==
  IF items = <<>> THEN st
  ELSE LET f1 == IF num = 0 THEN Touch(st.files, "unnamed") ELSE st.files
           n1 == IF num = 0 THEN GetFileIndex(f1, "unnamed") + 1 ELSE num
           st1 == [st EXCEPT !.files = f1]
       IN SaveUnnamedLoop_NoCount(SaveOne(st1, "unnamed", "", n1, Head(items)), n1, Tail(items))

\* for d in unnamed_data: ... with num carried from one pass to the next
RECURSIVE SaveUnnamedLoop(_, _, _)
SaveUnnamedLoop(st, num, items) ==
  IF items = <<>> THEN st
  ELSE LET f1 == IF num = 0 THEN Touch(st.files, "unnamed") ELSE st.files
           n1 == (IF num = 0 THEN GetFileIndex(f1, "unnamed") ELSE num) + 1
           st1 == [st EXCEPT !.files = f1]
       IN SaveUnnamedLoop(SaveOne(st1, "unnamed", "", n1, Head(items)), n1, Tail(items))

\* for k, v in named_data.items(): ...
RECURSIVE SaveNamedLoop(_, _)
SaveNamedLoop(st, named) ==
  IF named = <<>> THEN st
  ELSE LET k == Head(named)[1]
           v == Head(named)[2]
           f1 == Touch(st.files, k)
           num == GetFileIndex(f1, k) + 1
           st1 == [st EXCEPT !.files = f1]
       IN SaveNamedLoop(SaveOne(st1, k, k, num, v), Tail(named))

SaveAll(d, f, t, unnamed, named) ==
  SaveNamedLoop(SaveUnnamedLoop(SaveState(d, f, t, <<>>), 0, unnamed), named)

\* --------------------------------------------------- Python list indexing
IntIdx(i) == [t |-> "int", i |-> i]
Slice(start, stop) == [t |-> "slice", start |-> start, stop |-> stop]

\* the position (from 1) an integer index addresses in a list of length n,
\* 0 when it is out of range (IndexError)
IntPos(i, n) ==
  LET j == IF i < 0 THEN i + n ELSE i
  IN IF j >= 0 /\ j < n THEN j + 1 ELSE 0

\* slice.indices(n) for one bound, step None
Clamp(b, n, dflt) ==
  IF b = NoneV THEN dflt
  ELSE IF b[1] < 0 THEN (IF b[1] + n < 0 THEN 0 ELSE b[1] + n)
  ELSE (IF b[1] > n THEN n ELSE b[1])

\* the positions (from 1) a slice addresses in a list of length n
SlicePos(sl, n) == {j \in 1..n : j > Clamp(sl.start, n, 0) /\ j <= Clamp(sl.stop, n, n)}

\* the positions an index addresses; {} for an integer out of range
Positions(ix, n) ==
  IF ix.t = "int" THEN (IF IntPos(ix.i, n) = 0 THEN {} ELSE {IntPos(ix.i, n)})
  ELSE SlicePos(ix, n)

IndexError(ix, n) == ix.t = "int" /\ IntPos(ix.i, n) = 0

\* the elements of s at the positions P, in order
RECURSIVE Pick(_, _, _)
Pick(s, P, j) ==
  IF j > Len(s) THEN <<>>
  ELSE (IF j \in P THEN <<s[j]>> ELSE <<>>) \o Pick(s, P, j + 1)

\* files[index]
Select(s, ix) == Pick(s, Positions(ix, Len(s)), 1)

\* del files[index]
Delete(s, ix) == Pick(s, (1..Len(s)) \ Positions(ix, Len(s)), 1)

\* ---------------------------------------------------- os.remove in a loop
\* for f in files: remove(str(f)); stops at the first file that is missing
RECURSIVE RemoveAll(_, _)
RemoveAll(d, s) ==
  IF s = <<>> THEN [disk |-> d, ok |-> TRUE]
  ELSE IF ~Exists(d, Head(s)) THEN [disk |-> d, ok |-> FALSE]
  ELSE RemoveAll([x \in DOMAIN d \ {Head(s)} |-> d[x]], Tail(s))

\* [self._load_data(f) for f in files]
RECURSIVE LoadAll(_, _)
LoadAll(d, s) == IF s = <<>> THEN <<>> ELSE <<LoadData(d, Head(s))>> \o LoadAll(d, Tail(s))

AllExist(d, s) == \A j \in DOMAIN s : Exists(d, s[j])

\* a slip: a selection that is empty raises, for a slice as for an integer
LoadFile_Strict(d, s, ix) ==
  IF Select(s, ix) = <<>> THEN RetErr("IndexError")
  ELSE IF ~AllExist(d, Select(s, ix)) THEN RetErr("FileNotFoundError")
  ELSE IF ix.t = "int" THEN RetVal(LoadData(d, Select(s, ix)[1]))
  ELSE RetList(LoadAll(d, Select(s, ix)))

\* _load_file(files, item_) of __getitem__
LoadFile(d, s, ix) ==
  IF IndexError(ix, Len(s)) THEN RetErr("IndexError")
  ELSE IF ~AllExist(d, Select(s, ix)) THEN RetErr("FileNotFoundError")
  ELSE IF ix.t = "int" THEN RetVal(LoadData(d, Select(s, ix)[1]))
  ELSE RetList(LoadAll(d, Select(s, ix)))

\* ------------------------------------------------------- inputs of the calls
\* sequences over S of length lo..hi
SeqsOf(S, lo, hi) == UNION {[1..n -> S] : n \in lo..hi}

\* keyword arguments: pairs <<name, value>> with distinct names, in call order
NamedArgs == {s \in SeqsOf(Names \X Values, 0, Cardinality(Names)) : \A i, j \in DOMAIN s : i # j => s[i][1] # s[j][1]}

\* the name argument of last, rm and clean: left out, or a key
NameArgs == {NoneV} \cup {Some(k) : k \in Names}

\* integer indexes and slices the callers use
IntRange == (0 - 1)..0
Indexes == {IntIdx(i) : i \in IntRange} \cup {Slice(NoneV, NoneV), Slice(Some(1), NoneV)}

\* the elements of a tuple argument: a string, an int or a slice, or a value
\* of any other type (a float, say)
StrElem(k) == [ty |-> "str", key |-> k]
IdxElem(ix) == [ty |-> "index", index |-> ix]
OtherElem == [ty |-> "other"]
Elems == {StrElem(k) : k \in Names} \cup {IdxElem(IntIdx(0)), OtherElem}

Tuple(es) == [t |-> "tuple", elems |-> es]

\* key, index = item succeeds, isinstance(key, str) and
\* isinstance(index, (int, slice))
TupleOk(es) == Len(es) = 2 /\ es[1].ty = "str" /\ es[2].ty = "index"

\* tuple arguments of any make: every tuple of at most two elements, and one
\* of three
Tuples == {Tuple(es) : es \in SeqsOf(Elems, 0, 2)}
            \cup {Tuple(<<StrElem(k), IdxElem(IntIdx(0)), IdxElem(IntIdx(0))>>) : k \in Names}

\* the arguments of __getitem__: (key, index), a key alone, or a bare index
Items == {Tuple(<<StrElem(k), IdxElem(ix)>>) : k \in Names, ix \in Indexes}
           \cup {[t |-> "str", key |-> k] : k \in Keys}
           \cup {[t |-> "bare", index |-> ix] : ix \in Indexes}

\* no save made yet by this instance
NoneAssigned == [k \in Keys |-> 0]

\* joblib, the default of the backend parameter
Backend == "joblib"

\* no child store cached on the instance
NoSub == [cached |-> FALSE, id |-> 0, backend |-> Backend, files |-> EmptyIndex]

\* the location argument of Loader: None, a string (by the scheme urlparse
\* finds in it), or a value that is no string
NoLoc == [t |-> "none"]
StrLoc(scheme) == [t |-> "str", scheme |-> scheme]
NonStrLoc == [t |-> "other"]

\* no Loader made; cached is the set of catalog files in the dataset
\* directory, which outlives the Loader objects
NoLoader == [type |-> "none", location |-> NoLoc, cached |-> {}]

\* one store instance alone: no child, no second instance, no Loader
Alone ==
  /\ sub = NoSub
  /\ subdisk = EmptyDir
  /\ subDirExists = FALSE
  /\ files2 = EmptyIndex
  /\ loader = NoLoader

\* the generations of the files one save call wrote, noted in write order
RECURSIVE NoteAssigned(_, _)
NoteAssigned(a, written) ==
  IF written = <<>> THEN a
  ELSE NoteAssigned([a EXCEPT ![KeyOf(Head(written))] = GenOf(Head(written))], Tail(written))

\* ---------------------------------------------------------------- __init__
\* a slip: the directory is made whatever ignore_err says
construct_AlwaysMkdir(ignore_err) ==
  \E r \in MakeFileIndex(disk) :
    /\ op' = [name |-> "construct", ignore_err |-> ignore_err, warned |-> r.warned]
    /\ dirExists' = TRUE
    /\ disk' = r.disk
    /\ files' = r.files
    /\ ret' = RetNone
    /\ assigned' = NoneAssigned
    /\ sub' = NoSub
    /\ UNCHANGED <<clock, subdisk, subDirExists, files2, loader>>

\* DataSet(name, ignore_err=...) on the directory: a new instance takes the
\* place of the old one
construct(ignore_err) ==
  IF ~dirExists /\ ~ignore_err
    THEN /\ op' = [name |-> "construct", ignore_err |-> ignore_err, warned |-> <<>>]
         /\ ret' = RetErr("FileNotFoundError")
         /\ UNCHANGED <<disk, dirExists, files, clock, assigned, others>>
    ELSE \E r \in MakeFileIndex(disk) :
         /\ op' = [name |-> "construct", ignore_err |-> ignore_err, warned |-> r.warned]
         /\ dirExists' = TRUE
         /\ disk' = r.disk
         /\ files' = r.files
         /\ ret' = RetNone
         /\ assigned' = NoneAssigned
         /\ sub' = NoSub
         /\ UNCHANGED <<clock, subdisk, subDirExists, files2, loader>>

\* -------------------------------------------------------------------- save
save(unnamed, named) ==
  /\ Len(unnamed) + Len(named) >= 1
  /\ clock + Len(unnamed) + Len(named) <= MaxClock
  /\ LET st == SaveAll(disk, files, clock, unnamed, named)
     IN /\ disk' = st.disk
        /\ files' = st.files
        /\ clock' = st.clock
        /\ dirExists' = TRUE
        /\ op' = [name |-> "save", unnamed |-> unnamed, named |-> named, written |-> st.written]
        /\ ret' = RetNone
        /\ assigned' = NoteAssigned(assigned, st.written)
        /\ UNCHANGED others

\* -------------------------------------------------------------------- last
\* self._load_data(files[-1])
LoadLast(d, s) ==
  IF Len(s) = 0 THEN RetErr("IndexError")
  ELSE IF ~Exists(d, LastOf(s)) THEN RetErr("FileNotFoundError")
  ELSE RetVal(LoadData(d, LastOf(s)))

last(name) ==
  LET k == IF name = NoneV THEN "unnamed" ELSE name[1]
      f1 == Touch(files, k)
  IN /\ files' = f1
     /\ op' = [name |-> "last", key |-> k]
     /\ ret' = LoadLast(disk, f1[k])
     /\ UNCHANGED <<disk, dirExists, clock, assigned, others>>

\* ------------------------------------------------------------- __getitem__
\* a slip: the key of a tuple is looked up before the tuple is validated
getitem_TouchFirst(item) ==
  IF item.t = "tuple" /\ ~TupleOk(item.elems)
    THEN /\ op' = [name |-> "getitem", item |-> item]
         /\ ret' = RetErr("ValueError")
         /\ files' = IF Len(item.elems) >= 1 /\ item.elems[1].ty = "str"
                       THEN Touch(files, item.elems[1].key) ELSE files
         /\ UNCHANGED <<disk, dirExists, clock, assigned, others>>
    ELSE LET k == IF item.t = "bare" THEN "unnamed"
                  ELSE IF item.t = "tuple" THEN item.elems[1].key ELSE item.key
             ix == IF item.t = "str" THEN Slice(NoneV, NoneV)
                   ELSE IF item.t = "tuple" THEN item.elems[2].index ELSE item.index
             f1 == Touch(files, k)
         IN /\ files' = f1
            /\ op' = [name |-> "getitem", item |-> item, key |-> k, index |-> ix]
            /\ ret' = LoadFile(disk, f1[k], ix)
            /\ UNCHANGED <<disk, dirExists, clock, assigned, others>>

\* a tuple is unpacked and type-checked first and ends in ValueError when it
\* is not (str, int or slice); then the key's files are looked up and loaded
getitem(item) ==
  IF item.t = "tuple" /\ ~TupleOk(item.elems)
    THEN /\ op' = [name |-> "getitem", item |-> item]
         /\ ret' = RetErr("ValueError")
         /\ UNCHANGED <<disk, dirExists, files, clock, assigned, others>>
    ELSE LET k == IF item.t = "bare" THEN "unnamed"
                  ELSE IF item.t = "tuple" THEN item.elems[1].key ELSE item.key
             ix == IF item.t = "str" THEN Slice(NoneV, NoneV)
                   ELSE IF item.t = "tuple" THEN item.elems[2].index ELSE item.index
             f1 == Touch(files, k)
         IN /\ files' = f1
            /\ op' = [name |-> "getitem", item |-> item, key |-> k, index |-> ix]
            /\ ret' = LoadFile(disk, f1[k], ix)
            /\ UNCHANGED <<disk, dirExists, clock, assigned, others>>

\* ---------------------------------------------------------------- iteration
\* for data in store: the class defines no __iter__, so the sequence protocol
\* calls __getitem__(0), __getitem__(1), ... and stops at the first IndexError;
\* any other error leaves the loop
RECURSIVE IterLoop(_, _, _, _)
IterLoop(d, s, i, got) ==
  LET r == LoadFile(d, s, IntIdx(i))
  IN IF r.kind = "value" THEN IterLoop(d, s, i + 1, Append(got, r.val))
     ELSE IF r.err = "IndexError" THEN RetList(got)
     ELSE r

iterate ==
  LET f1 == Touch(files, "unnamed")
  IN /\ files' = f1
     /\ op' = [name |-> "iter"]
     /\ ret' = IterLoop(disk, f1["unnamed"], 0, <<>>)
     /\ UNCHANGED <<disk, dirExists, clock, assigned, others>>

\* ---------------------------------------------------------------------- rm
rm(index, name) ==
  LET k == IF name = NoneV THEN "unnamed" ELSE name[1]
      f1 == Touch(files, k)
      r == RemoveAll(disk, Select(f1[k], index))
  IN /\ op' = [name |-> "rm", key |-> k, index |-> index]
     /\ UNCHANGED <<dirExists, clock, assigned, others>>
     /\ IF IndexError(index, Len(f1[k]))
          THEN /\ ret' = RetErr("IndexError")
               /\ files' = f1
               /\ UNCHANGED disk
          ELSE /\ disk' = r.disk
               /\ IF r.ok
                    THEN /\ files' = [f1 EXCEPT ![k] = Delete(@, index)]
                         /\ ret' = RetNone
                    ELSE /\ files' = f1
                         /\ ret' = RetErr("FileNotFoundError")

\* ------------------------------------------------------------------- clean
\* clean(name): remove every file of one key, then the key
cleanName(k) ==
  LET f1 == Touch(files, k)
      r == RemoveAll(disk, f1[k])
  IN /\ op' = [name |-> "clean", key |-> Some(k)]
     /\ disk' = r.disk
     /\ IF r.ok
          THEN /\ files' = DelKey(f1, k)
               /\ ret' = RetNone
          ELSE /\ files' = f1
               /\ ret' = RetErr("FileNotFoundError")
     /\ UNCHANGED <<dirExists, clock, assigned, others>>

\* a slip: the directory is removed and the index is kept
cleanAll_KeepIndex ==
  /\ op' = [name |-> "clean", key |-> NoneV]
  /\ IF dirExists
       THEN /\ disk' = EmptyDir
            /\ dirExists' = FALSE
            /\ ret' = RetNone
            /\ subdisk' = EmptyDir
            /\ subDirExists' = FALSE
            /\ UNCHANGED files
       ELSE /\ ret' = RetErr("FileNotFoundError")
            /\ UNCHANGED <<disk, dirExists, files, subdisk, subDirExists>>
  /\ UNCHANGED <<clock, assigned, sub, files2, loader>>

\* clean(): rmtree of the store directory, the directories of the child
\* stores with it, then an empty index
cleanAll ==
  /\ op' = [name |-> "clean", key |-> NoneV]
  /\ IF dirExists
       THEN /\ disk' = EmptyDir
            /\ dirExists' = FALSE
            /\ subdisk' = EmptyDir
            /\ subDirExists' = FALSE
            /\ files' = EmptyIndex
            /\ ret' = RetNone
       ELSE /\ ret' = RetErr("FileNotFoundError")
            /\ UNCHANGED <<disk, dirExists, files, subdisk, subDirExists>>
  /\ UNCHANGED <<clock, assigned, sub, files2, loader>>

\* -------------------------------------------------------------------- dump
\* the keys whose v[-1] or whose load raises
DumpFails(d, f) == {k \in DOMAIN f : Len(f[k]) = 0 \/ ~Exists(d, LastOf(f[k]))}

\* {k: self._load_data(v[-1]) for k, v in self._files.items()}
DumpMap(d, f) == [k \in DOMAIN f |-> LoadData(d, LastOf(f[k]))]

\* dump(fpath) with fpath outside the store directory; the mapping is
\* pickled to fpath.  The dict is walked in insertion order, which the index
\* does not keep: any failing key may be the one that raises.
dump ==
  /\ op' = [name |-> "dump"]
  /\ IF DumpFails(disk, files) = {}
       THEN ret' = RetMap(DumpMap(disk, files))
       ELSE \E k \in DumpFails(disk, files) :
              ret' = IF Len(files[k]) = 0 THEN RetErr("IndexError") ELSE RetErr("FileNotFoundError")
  /\ UNCHANGED <<disk, dirExists, files, clock, assigned, others>>

\* ------------------------------------------------------------- __getattr__
\* the child store handed to the caller, told apart by the number of its
\* construction
RetStore(id) == [kind |-> "store", id |-> id]

\* a slip: the child is constructed anew at every access
getattr_NoCache ==
  \E r \in MakeFileIndex(subdisk) :
    /\ sub' = [cached |-> TRUE, id |-> sub.id + 1, backend |-> Backend, files |-> r.files]
    /\ subdisk' = r.disk
    /\ subDirExists' = TRUE
    /\ dirExists' = TRUE
    /\ op' = [name |-> "getattr", built |-> TRUE]
    /\ ret' = RetStore(sub.id + 1)
    /\ UNCHANGED <<disk, files, clock, assigned, files2, loader>>

\* store.<name> for a name that is not a defined operation.  __getattr__ runs
\* only when the attribute is missing: DataSet(name, path=str(self._path),
\* backend=self._backend) makes the child's directory (parents=True) and
\* indexes it, and setattr caches the child; later the attribute is found
getattr ==
  IF sub.cached
    THEN /\ op' = [name |-> "getattr", built |-> FALSE]
         /\ ret' = RetStore(sub.id)
         /\ UNCHANGED <<disk, dirExists, files, clock, assigned, others>>
    ELSE \E r \in MakeFileIndex(subdisk) :
         /\ sub' = [cached |-> TRUE, id |-> sub.id + 1, backend |-> Backend, files |-> r.files]
         /\ subdisk' = r.disk
         /\ subDirExists' = TRUE
         /\ dirExists' = TRUE
         /\ op' = [name |-> "getattr", built |-> TRUE]
         /\ ret' = RetStore(sub.id + 1)
         /\ UNCHANGED <<disk, files, clock, assigned, files2, loader>>

\* ------------------------------------------- the operations of the child
\* store.<name>.save(...)
subSave(unnamed, named) ==
  /\ sub.cached
  /\ Len(unnamed) + Len(named) >= 1
  /\ clock + Len(unnamed) + Len(named) <= MaxClock
  /\ LET st == SaveAll(subdisk, sub.files, clock, unnamed, named)
     IN /\ subdisk' = st.disk
        /\ sub' = [sub EXCEPT !.files = st.files]
        /\ clock' = st.clock
        /\ subDirExists' = TRUE
        /\ dirExists' = TRUE
        /\ op' = [name |-> "sub.save", unnamed |-> unnamed, named |-> named, written |-> st.written]
        /\ ret' = RetNone
        /\ UNCHANGED <<disk, files, assigned, files2, loader>>

\* store.<name>.rm(index, name)
subRm(index, name) ==
  LET k == IF name = NoneV THEN "unnamed" ELSE name[1]
      f1 == Touch(sub.files, k)
      r == RemoveAll(subdisk, Select(f1[k], index))
  IN /\ sub.cached
     /\ op' = [name |-> "sub.rm", key |-> k, index |-> index]
     /\ UNCHANGED <<disk, dirExists, files, clock, assigned, subDirExists, files2, loader>>
     /\ IF IndexError(index, Len(f1[k]))
          THEN /\ ret' = RetErr("IndexError")
               /\ sub' = [sub EXCEPT !.files = f1]
               /\ UNCHANGED subdisk
          ELSE /\ subdisk' = r.disk
               /\ IF r.ok
                    THEN /\ sub' = [sub EXCEPT !.files = [f1 EXCEPT ![k] = Delete(@, index)]]
                         /\ ret' = RetNone
                    ELSE /\ sub' = [sub EXCEPT !.files = f1]
                         /\ ret' = RetErr("FileNotFoundError")

\* store.<name>.clean(name)
subCleanName(k) ==
  LET f1 == Touch(sub.files, k)
      r == RemoveAll(subdisk, f1[k])
  IN /\ sub.cached
     /\ op' = [name |-> "sub.clean", key |-> Some(k)]
     /\ subdisk' = r.disk
     /\ IF r.ok
          THEN /\ sub' = [sub EXCEPT !.files = DelKey(f1, k)]
               /\ ret' = RetNone
          ELSE /\ sub' = [sub EXCEPT !.files = f1]
               /\ ret' = RetErr("FileNotFoundError")
     /\ UNCHANGED <<disk, dirExists, files, clock, assigned, subDirExists, files2, loader>>

\* store.<name>.clean(): rmtree of the child's directory
subCleanAll ==
  /\ sub.cached
  /\ op' = [name |-> "sub.clean", key |-> NoneV]
  /\ IF subDirExists
       THEN /\ subdisk' = EmptyDir
            /\ subDirExists' = FALSE
            /\ sub' = [sub EXCEPT !.files = EmptyIndex]
            /\ ret' = RetNone
       ELSE /\ ret' = RetErr("FileNotFoundError")
            /\ UNCHANGED <<subdisk, subDirExists, sub>>
  /\ UNCHANGED <<disk, dirExists, files, clock, assigned, files2, loader>>

\* ------------------------------------------------------------------ Loader
\* names of the embedded catalog (the two that have a property), and a name
\* outside it
Catalog == {"elements", "elements_completed"}
DataNames == Catalog \cup {"mine"}

Locations == {NoLoc, StrLoc(""), StrLoc("http"), StrLoc("https"), StrLoc("ftp"), NonStrLoc}

\* _select(loc): the type, or the error raised
Select_(loc) ==
  IF loc.t = "none" THEN "local"
  ELSE IF loc.t # "str" THEN "TypeError"
  ELSE IF loc.scheme = "" THEN "user_loc"
  ELSE IF loc.scheme \in {"http", "https"} THEN "http"
  ELSE "ValueError"

\* Loader(location)
LoaderNew(loc) ==
  /\ op' = [name |-> "Loader", location |-> loc]
  /\ IF Select_(loc) \in {"TypeError", "ValueError"}
       THEN /\ ret' = RetErr(Select_(loc))
            /\ UNCHANGED loader
       ELSE /\ ret' = RetNone
            /\ loader' = [type |-> Select_(loc), location |-> loc, cached |-> loader.cached]
  /\ UNCHANGED <<disk, dirExists, files, clock, assigned, sub, subdisk, subDirExists, files2>>

\* what load returns
RetFrame(data) == [kind |-> "frame", data |-> data]
RetDataSet(root, data) == [kind |-> "dataset", root |-> root, data |-> data]
RetFile(data) == [kind |-> "file", data |-> data]

\* load(data) for a Loader of type ty: the branch taken, the results it can
\* have (the remote answers or refuses, the named store exists or does not)
\* and the catalog files at hand afterwards
LoadOutcomes(ty, cached, data) ==
  IF ty = "local"
    THEN IF data \in Catalog
           THEN IF data \in cached
                  THEN {[branch |-> "catalog", ret |-> RetFrame(data), cached |-> cached]}
                  ELSE {[branch |-> "catalog", ret |-> RetFrame(data), cached |-> cached \cup {data}],
                        [branch |-> "catalog", ret |-> RetErr("HTTPError"), cached |-> cached]}
           ELSE {[branch |-> "userdata", ret |-> RetDataSet("userdata", data), cached |-> cached],
                 [branch |-> "userdata", ret |-> RetErr("FileNotFoundError"), cached |-> cached]}
  ELSE IF ty = "user_local"
    THEN {[branch |-> "location", ret |-> RetDataSet("location", data), cached |-> cached],
          [branch |-> "location", ret |-> RetErr("FileNotFoundError"), cached |-> cached]}
  ELSE IF ty = "http"
    THEN {[branch |-> "http", ret |-> RetFile(data), cached |-> cached],
          [branch |-> "http", ret |-> RetErr("HTTPError"), cached |-> cached]}
  ELSE {[branch |-> "none", ret |-> RetErr("ValueError"), cached |-> cached]}

\* loader.load(data), or loader(data)
LoaderLoad(data) ==
  /\ loader.type # "none"
  /\ \E o \in LoadOutcomes(loader.type, loader.cached, data) :
       /\ op' = [name |-> "load", data |-> data, branch |-> o.branch]
       /\ ret' = o.ret
       /\ loader' = [loader EXCEPT !.cached = o.cached]
  /\ UNCHANGED <<disk, dirExists, files, clock, assigned, sub, subdisk, subDirExists, files2>>

\* loader.elements, loader.elements_completed: _get_prop sets the type to
\* 'local' for the call and puts the old type back when the call returns;
\* when the call raises the type stays 'local'
LoaderProp(data) ==
  /\ loader.type # "none"
  /\ \E o \in LoadOutcomes("local", loader.cached, data) :
       /\ op' = [name |-> "prop", data |-> data, branch |-> o.branch]
       /\ ret' = o.ret
       /\ loader' = [loader EXCEPT !.cached = o.cached,
                                   !.type = IF o.ret.kind = "error" THEN "local" ELSE @]
  /\ UNCHANGED <<disk, dirExists, files, clock, assigned, sub, subdisk, subDirExists, files2>>

\* ------------------------------------------- a second instance on the directory
\* other = DataSet(name) on the same directory
construct2 ==
  \E r \in MakeFileIndex(disk) :
    /\ op' = [name |-> "construct2", warned |-> r.warned]
    /\ dirExists' = TRUE
    /\ disk' = r.disk
    /\ files2' = r.files
    /\ ret' = RetNone
    /\ UNCHANGED <<files, clock, assigned, sub, subdisk, subDirExists, loader>>

\* other.save(...): the generations come from the other instance's own
\* index; save reads nothing from the directory, so the steps of two save
\* calls that run side by side have the effect of the calls made in turn
save2(unnamed, named) ==
  /\ Len(unnamed) + Len(named) >= 1
  /\ clock + Len(unnamed) + Len(named) <= MaxClock
  /\ LET st == SaveAll(disk, files2, clock, unnamed, named)
     IN /\ disk' = st.disk
        /\ files2' = st.files
        /\ clock' = st.clock
        /\ dirExists' = TRUE
        /\ op' = [name |-> "save2", unnamed |-> unnamed, named |-> named, written |-> st.written]
        /\ ret' = RetNone
        /\ UNCHANGED <<files, assigned, sub, subdisk, subDirExists, loader>>

\* ------------------------------------------------------ the initial states
\* a file as it may lie in the directory before the first construction; the
\* n files of a directory carry the modification times 1..n in any order
\* (generic pickles of generations 1..MaxInitFiles)
InitPaths == {Path(fn, g, "z") : fn \in {""} \cup Names, g \in 1..MaxInitFiles}

InitVals(p) == {v \in Values : SaveFile(p.fn, p.gen, v) = p}

\* the directories of at most MaxInitFiles files with names in PS
DirsOver(PS) ==
  {d \in UNION {[S -> [val : Values, mtime : 1..MaxInitFiles]] :
                   S \in {T \in SUBSET PS : Cardinality(T) <= MaxInitFiles}} :
     /\ \A p \in DOMAIN d : d[p].val \in InitVals(p)
     /\ \A p, q \in DOMAIN d : p # q => d[p].mtime # d[q].mtime
     /\ \A p \in DOMAIN d : d[p].mtime <= Cardinality(DOMAIN d)}

InitDirs == DirsOver(InitPaths)

\* unnamed files as an older version left them (unnamed.@<g>.pkl.z) and as
\* they are named now (@<g>.pkl.z)
LegacyPaths == {Path(fn, g, "z") : fn \in {"", "unnamed"}, g \in 1..MaxInitFiles}

LegacyDirs == DirsOver(LegacyPaths)

\* DataSet(name) on a directory that holds any validly named files
Init ==
  /\ disk \in InitDirs
  /\ dirExists = TRUE
  /\ files \in {r.files : r \in MakeFileIndex(disk)}
  /\ clock = Cardinality(DOMAIN disk)
  /\ op = [name |-> "construct", ignore_err |-> TRUE, warned |-> <<>>]
  /\ ret = RetNone
  /\ assigned = NoneAssigned
  /\ Alone

\* DataSet(name) on an empty (or absent) directory
InitFresh ==
  /\ disk = EmptyDir
  /\ dirExists = TRUE
  /\ files = EmptyIndex
  /\ clock = 0
  /\ op = [name |-> "construct", ignore_err |-> TRUE, warned |-> <<>>]
  /\ ret = RetNone
  /\ assigned = NoneAssigned
  /\ Alone

\* a directory an older version wrote to, not opened yet
InitLegacy ==
  /\ disk \in LegacyDirs
  /\ dirExists = TRUE
  /\ files = EmptyIndex
  /\ clock = Cardinality(DOMAIN disk)
  /\ op = [name |-> "none"]
  /\ ret = RetNone
  /\ assigned = NoneAssigned
  /\ Alone

\* the calls made on one instance
Call ==
  \/ \E u \in SeqsOf(Values, 0, MaxItems), n \in NamedArgs : save(u, n)
  \/ \E nm \in NameArgs : last(nm)
  \/ \E it \in Items : getitem(it)
  \/ \E ix \in Indexes, nm \in NameArgs : rm(ix, nm)
  \/ \E k \in Names : cleanName(k)
  \/ cleanAll
  \/ dump
  \/ iterate

Next ==
  \/ Call
  \/ \E ie \in BOOLEAN : construct(ie)

\* a store opened on any directory, used, and opened again
Spec == Init /\ [][Next]_vars

\* one instance, started on an empty directory
SpecFresh == InitFresh /\ [][Call]_vars

\* the store is opened on the older directory, used, and opened again
NextLegacy ==
  \/ \E ie \in BOOLEAN : construct(ie)
  \/ op.name # "none" /\ Call

SpecLegacy == InitLegacy /\ [][NextLegacy]_vars

\* a store that is written to, emptied, and indexed with tuples of any make
NextTuple ==
  \/ \E u \in SeqsOf(Values, 0, MaxItems), n \in NamedArgs : save(u, n)
  \/ \E it \in Tuples : getitem(it)
  \/ cleanAll

SpecTuple == Init /\ [][NextTuple]_vars

\* the arguments used on a parent and its child: saves of at most one
\* positional item, removal of the newest entry or of all
SubSaves == SeqsOf(Values, 0, 1) \X NamedArgs
SubIndexes == {IntIdx(0 - 1), Slice(NoneV, NoneV)}

\* save, rm and clean on the child
SubCall ==
  \/ \E a \in SubSaves : subSave(a[1], a[2])
  \/ \E ix \in SubIndexes, nm \in NameArgs : subRm(ix, nm)
  \/ \E k \in Names : subCleanName(k)
  \/ subCleanAll

\* a parent started on an empty directory, and the child it caches
NextSub ==
  \/ \E a \in SubSaves : save(a[1], a[2])
  \/ \E ix \in SubIndexes, nm \in NameArgs : rm(ix, nm)
  \/ \E k \in Names : cleanName(k)
  \/ cleanAll
  \/ getattr
  \/ SubCall

SpecSub == InitFresh /\ [][NextSub]_vars

\* Loader objects made for every kind of location, and used
NextLoader ==
  \/ \E loc \in Locations : LoaderNew(loc)
  \/ \E d \in DataNames : LoaderLoad(d)
  \/ \E d \in Catalog : LoaderProp(d)

SpecLoader == InitFresh /\ [][NextLoader]_vars

\* two instances opened on the same directory
InitTwo ==
  /\ disk \in InitDirs
  /\ dirExists = TRUE
  /\ files \in {r.files : r \in MakeFileIndex(disk)}
  /\ files2 = files
  /\ clock = Cardinality(DOMAIN disk)
  /\ op = [name |-> "construct2", warned |-> <<>>]
  /\ ret = RetNone
  /\ assigned = NoneAssigned
  /\ sub = NoSub
  /\ subdisk = EmptyDir
  /\ subDirExists = FALSE
  /\ loader = NoLoader

\* both write, and either may be opened again
NextTwo ==
  \/ \E u \in SeqsOf(Values, 0, MaxItems), n \in NamedArgs : save(u, n)
  \/ \E u \in SeqsOf(Values, 0, MaxItems), n \in NamedArgs : save2(u, n)
  \/ \E ie \in BOOLEAN : construct(ie)
  \/ construct2

SpecTwo == InitTwo /\ [][NextTwo]_vars

\* ================================================================== claims
SaveStep == op'.name = "save"

StrictlyIncreasing(s) == \A i, j \in DOMAIN s : i < j => s[i] < s[j]

GensOf(s) == [i \in DOMAIN s |-> GenOf(s[i])]

\* C1: a save never overwrites an existing file: every path a save call
\* writes is absent from the directory before the call, and its generation is
\* greater than the generation of every file of its key then on disk.
C1_NoOverwrite ==
  [][SaveStep =>
       \A i \in DOMAIN op'.written :
         LET p == op'.written[i]
         IN /\ ~Exists(disk, p)
            /\ \A q \in DOMAIN disk : KeyOf(q) = KeyOf(p) => GenOf(p) > GenOf(q)]_vars

\* the generations one call wrote under key k, in write order
RECURSIVE WrittenGens(_, _)
WrittenGens(written, k) ==
  IF written = <<>> THEN <<>>
  ELSE (IF KeyOf(Head(written)) = k THEN <<GenOf(Head(written))>> ELSE <<>>) \o WrittenGens(Tail(written), k)

\* C2 (as stated): on an instance started on an empty directory the
\* generations chosen by successive saves under a key strictly increase in
\* save order, whatever was deleted in between.
C2_NeverReused ==
  [][SaveStep => \A k \in Keys : StrictlyIncreasing(<<assigned[k]>> \o WrittenGens(op'.written, k))]_vars

\* C2 (amended): the generation a save chooses is greater than the generation
\* of every entry the key holds at that moment, so the generations of a key's
\* current entries strictly increase along its sequence and no two files of
\* the key that exist together share a generation.
C2_CurrentEntriesIncrease ==
  /\ \A k \in DOMAIN files : StrictlyIncreasing(GensOf(files[k]))
  /\ \A k \in DOMAIN files : SeqToSet(files[k]) = FilesOfKey(disk, k)
  /\ \A p, q \in DOMAIN disk : (KeyOf(p) = KeyOf(q) /\ GenOf(p) = GenOf(q)) => p = q

\* a save chose generation 2 again for key "a" after the entry that held it
\* was deleted: all three writes went to "a", the first is a.@1, the second is
\* gone and the third is a.@2
C2_Witness ==
  /\ op.name = "save"
  /\ assigned["unnamed"] = 0
  /\ "a" \in DOMAIN files
  /\ GensOf(files["a"]) = <<1, 2>>
  /\ disk[files["a"][1]].mtime = 1
  /\ disk[files["a"][2]].mtime = 3

\* C3: in every reachable state each key's sequence is sorted by the
\* modification time its files have on disk, oldest first (handles whose file
\* is gone are left out of the comparison), so that the last handle is the
\* key's newest file.
C3_SortedByMtime ==
  \A k \in DOMAIN files :
    \A i, j \in DOMAIN files[k] :
      (i < j /\ Exists(disk, files[k][i]) /\ Exists(disk, files[k][j]))
        => disk[files[k][i]].mtime <= disk[files[k][j]].mtime

\* the sequence a key holds, empty when the index does not list the key
Entries(f, k) == IF k \in DOMAIN f THEN f[k] ELSE <<>>

\* C4: on an instance started on an empty directory, save(k=v) on a key of n
\* entries leaves n+1: every old position holds the same handle, whose file
\* is untouched, and returns the value it returned before; position n and
\* last(k) return v.  No save shortens any key's sequence.
C4_SaveAppends ==
  [][SaveStep =>
       /\ \A k \in DOMAIN files : k \in DOMAIN files' /\ Len(files'[k]) >= Len(files[k])
       /\ \A x \in DOMAIN op'.named :
            LET k == op'.named[x][1]
                v == op'.named[x][2]
                old == Entries(files, k)
                n == Len(old)
            IN /\ Len(files'[k]) = n + 1
               /\ \A i \in 0..(n - 1) :
                    /\ files'[k][i + 1] = old[i + 1]
                    /\ disk'[old[i + 1]] = disk[old[i + 1]]
                    /\ LoadFile(disk', files'[k], IntIdx(i)).kind = "value"
                    /\ LoadFile(disk', files'[k], IntIdx(i)) = LoadFile(disk, old, IntIdx(i))
               /\ LoadFile(disk', files'[k], IntIdx(n)) = RetVal(v)
               /\ LoadLast(disk', files'[k]) = RetVal(v)]_vars

\* a third entry was saved under "a" behind two older ones
C4_Witness ==
  /\ op.name = "save"
  /\ Len(op.named) = 1
  /\ "a" \in DOMAIN files
  /\ Len(files["a"]) = 3

\* C5: one save call with n >= 1 positional items, on an "unnamed" sequence
\* of length m whose last entry has generation g (0 when m = 0), writes the
\* items in call order under the generations g+1 .. g+n and appends them:
\* the bare index m+i returns item i, the bare range from m returns the items
\* in call order and last() returns the final item.
C5_UnnamedBatch ==
  [][(SaveStep /\ Len(op'.unnamed) >= 1) =>
       LET items == op'.unnamed
           n == Len(items)
           old == Entries(files, "unnamed")
           m == Len(old)
           g == IF m = 0 THEN 0 ELSE GenOf(old[m])
           new == files'["unnamed"]
       IN /\ Len(new) = m + n
          /\ \A i \in 1..m : new[i] = old[i]
          /\ \A i \in 1..n :
               /\ new[m + i] = op'.written[i]
               /\ KeyOf(new[m + i]) = "unnamed"
               /\ GenOf(new[m + i]) = g + i
               /\ disk'[new[m + i]].mtime = clock + i
               /\ LoadFile(disk', new, IntIdx(m + i - 1)) = RetVal(items[i])
          /\ LoadFile(disk', new, Slice(Some(m), NoneV)) = RetList(items)
          /\ LoadLast(disk', new) = RetVal(items[n])]_vars

\* two positional items were saved in one call behind an older entry
C5_Witness ==
  /\ op.name = "save"
  /\ Len(op.unnamed) = 2
  /\ op.unnamed[1] # op.unnamed[2]
  /\ Len(files["unnamed"]) = 3

\* C6: rm with a valid integer index or a range on a key the index lists
\* removes from disk exactly the files at those positions and from the
\* sequence exactly those handles, keeps the rest in order, leaves the other
\* keys and their files alone, and the last handle left can be loaded.
C6_RmExact ==
  [][(op'.name = "rm" /\ op'.key \in DOMAIN files
        /\ ~IndexError(op'.index, Len(files[op'.key]))) =>
       LET k == op'.key
           gone == SeqToSet(Select(files[k], op'.index))
       IN /\ ret' = RetNone
          /\ DOMAIN disk' = DOMAIN disk \ gone
          /\ \A p \in DOMAIN disk' : disk'[p] = disk[p]
          /\ DOMAIN files' = DOMAIN files
          /\ files'[k] = Delete(files[k], op'.index)
          /\ \A k2 \in DOMAIN files \ {k} : files'[k2] = files[k2]
          /\ Len(files'[k]) > 0 => LoadLast(disk', files'[k]).kind = "value"]_vars

\* the key of the last read has no entry
ReadOfEmptyKey ==
  /\ op.name \in {"last", "getitem"}
  /\ Len(Entries(files, op.key)) = 0

\* C7 (as stated): every load access to a key without entries ends in an
\* error.
C7_EmptyKeyAlwaysFails == ReadOfEmptyKey => ret.kind = "error"

\* C7 (amended): on a key without entries last(key) and an integer access
\* raise the out-of-range error; a range access and the access by the key
\* string alone return an empty list.
C7_EmptyKeyByAccess ==
  ReadOfEmptyKey =>
    IF op.name = "last" THEN ret = RetErr("IndexError")
    ELSE IF op.index.t = "int" THEN ret = RetErr("IndexError")
    ELSE ret = RetList(<<>>)

\* a key emptied by rm was read by its name alone and gave the empty list
C7_Witness ==
  /\ op.name = "getitem"
  /\ op.item.t = "str"
  /\ Len(Entries(files, op.key)) = 0
  /\ assigned[op.key] > 0
  /\ ret = RetList(<<>>)

\* C8: dump succeeds in every reachable state and its mapping holds, for
\* every key of the index, the value of the key's newest entry.
C8_DumpAlwaysSucceeds ==
  op.name = "dump" =>
    /\ ret.kind = "map"
    /\ DOMAIN ret.map = DOMAIN files
    /\ \A k \in DOMAIN files : RetVal(ret.map[k]) = LoadLast(disk, files[k])

\* C9: clean() leaves no directory, no file and no entry (no key at all when
\* it returns); a construction that may create the directory then gives a
\* store without entries; a save then recreates the directory and numbers
\* every key from generation 1.
C9_CleanAll ==
  [][/\ (op'.name = "clean" /\ op'.key = NoneV) =>
          /\ ~dirExists'
          /\ DOMAIN disk' = {}
          /\ \A k \in DOMAIN files' : files'[k] = <<>>
          /\ ret' = RetNone => DOMAIN files' = {}
     /\ (~dirExists /\ op'.name = "construct" /\ op'.ignore_err) =>
          /\ ret' = RetNone
          /\ dirExists'
          /\ DOMAIN files' = {}
     /\ (~dirExists /\ SaveStep) =>
          /\ dirExists'
          /\ \A k \in Keys : WrittenGens(op'.written, k) = [i \in 1..Len(WrittenGens(op'.written, k)) |-> i]
          /\ \A k \in DOMAIN files' : files'[k] = Pick(op'.written, {i \in DOMAIN op'.written : KeyOf(op'.written[i]) = k}, 1)]_vars

\* clean() removed a directory that earlier saves had filled
C9_Witness ==
  /\ op.name = "clean"
  /\ op.key = NoneV
  /\ ret = RetNone
  /\ ~dirExists
  /\ \E k \in Keys : assigned[k] > 0

\* C10: clean(name) removes from disk every file of the key's sequence and
\* nothing else, drops the key from the index, and leaves the sequences of
\* the other keys as they were.
C10_CleanNameExact ==
  [][(op'.name = "clean" /\ op'.key # NoneV) =>
       LET k == op'.key[1]
           gone == SeqToSet(Entries(files, k))
       IN /\ k \notin DOMAIN files'
          /\ DOMAIN disk' = DOMAIN disk \ gone
          /\ \A p \in DOMAIN disk' : disk'[p] = disk[p]
          /\ \A k2 \in DOMAIN files \ {k} : k2 \in DOMAIN files' /\ files'[k2] = files[k2]]_vars

\* C11: at a successful construction every file with the legacy name
\* unnamed.@<g>.pkl.<tag> is renamed to @<g>.pkl.<tag>, is entered under
\* "unnamed" by its new path and is warned about exactly once; a directory
\* without legacy files is left as it is, without a warning (so a later
\* construction renames nothing); and no file that was there before the open
\* is lost.
ConstructStep == op'.name = "construct" /\ ret'.kind = "none"

Count(s, x) == Cardinality({i \in DOMAIN s : s[i] = x})

LegacyIn(d) == {p \in DOMAIN d : IsLegacy(p)}

C11_LegacyMigration ==
  [][ConstructStep =>
       /\ \A p \in LegacyIn(disk) :
            /\ p \notin DOMAIN disk'
            /\ NewPath(p) \in DOMAIN disk'
            /\ disk'[NewPath(p)] = disk[p]
            /\ "unnamed" \in DOMAIN files'
            /\ NewPath(p) \in SeqToSet(files'["unnamed"])
            /\ Count(op'.warned, p) = 1
       /\ LegacyIn(disk') = {}
       /\ LegacyIn(disk) = {} => disk' = disk /\ op'.warned = <<>>
       /\ \A p \in DOMAIN disk \ LegacyIn(disk) : p \in DOMAIN disk' /\ disk'[p] = disk[p]
       /\ Cardinality(DOMAIN disk') = Cardinality(DOMAIN disk)]_vars

\* C12: indexing with a tuple whose arity is not 2, or whose first element is
\* not a string, or whose second element is neither an integer nor a range,
\* ends in ValueError and leaves the files on disk and the index as they were.
Malformed(es) == Len(es) # 2 \/ es[1].ty # "str" \/ es[2].ty # "index"

MalformedAccess(o) == o.name = "getitem" /\ o.item.t = "tuple" /\ Malformed(o.item.elems)

C12_MalformedTupleFailsFast ==
  [][MalformedAccess(op') =>
       /\ ret'.kind = "error"
       /\ ret'.err = "ValueError"
       /\ disk' = disk
       /\ dirExists' = dirExists
       /\ files' = files]_vars

\* a tuple (key, float) was refused while the store holds files and no entry
\* for the key
C12_Witness ==
  /\ MalformedAccess(op)
  /\ Len(op.item.elems) = 2
  /\ op.item.elems[1].ty = "str"
  /\ op.item.elems[1].key \notin DOMAIN files
  /\ ret.kind = "error"
  /\ ret.err = "ValueError"
  /\ DOMAIN disk # {}

\* C13: the first attribute access constructs the child, rooted in
\* <store directory>/<name> (which exists from then on) and with the parent's
\* backend; every later access returns that same child and constructs
\* nothing; no access changes the parent's index.
GetattrStep == op'.name = "getattr"

C13_SubStoreCached ==
  [][GetattrStep =>
       /\ files' = files
       /\ disk' = disk
       /\ sub'.cached
       /\ sub'.backend = Backend
       /\ ret' = RetStore(sub'.id)
       /\ IF sub.cached
            THEN sub' = sub /\ subdisk' = subdisk /\ ~op'.built
            ELSE /\ op'.built
                 /\ sub'.id # sub.id
                 /\ subDirExists'
                 /\ \A k \in DOMAIN sub'.files : SeqToSet(sub'.files[k]) = FilesOfKey(subdisk', k)]_vars

\* the child that holds a file was handed out again, by a later access
C13_Witness ==
  /\ op.name = "getattr"
  /\ ~op.built
  /\ sub.cached
  /\ sub.id = 1
  /\ \E k \in DOMAIN sub.files : sub.files[k] # <<>>

\* C14: a construction on an absent directory with ignore_err false ends in
\* FileNotFoundError and creates nothing; every other construction succeeds
\* with the directory in place, and on a directory that was absent the new
\* store has no entry.
C14_ConstructAndDirectory ==
  [][op'.name = "construct" =>
       IF ~dirExists /\ ~op'.ignore_err
         THEN /\ ret'.kind = "error"
              /\ ret'.err = "FileNotFoundError"
              /\ dirExists' = FALSE
              /\ disk' = disk
              /\ files' = files
         ELSE /\ ret'.kind = "none"
              /\ dirExists' = TRUE
              /\ ~dirExists => disk' = EmptyDir /\ files' = EmptyIndex]_vars

\* a construction was refused on the directory that clean() had removed, the
\* old instance still holding what it held
C14_Witness ==
  /\ op.name = "construct"
  /\ ~op.ignore_err
  /\ ret.kind = "error"
  /\ ~dirExists
  /\ disk = EmptyDir

\* C15: an iteration over the store ends normally and yields the values of
\* the "unnamed" entries, one for each entry and each file once, oldest
\* first; with no unnamed entry it yields nothing.
C15_IterationYieldsUnnamed ==
  op.name = "iter" =>
    /\ ret.kind = "list"
    /\ Len(ret.vals) = Len(files["unnamed"])
    /\ \A i, j \in DOMAIN files["unnamed"] : i # j => files["unnamed"][i] # files["unnamed"][j]
    /\ \A i \in DOMAIN files["unnamed"] :
         /\ Exists(disk, files["unnamed"][i])
         /\ ret.vals[i] = LoadData(disk, files["unnamed"][i])

\* C16: load(name) reaches the branch of the Loader's location: None goes to
\* the embedded catalog or the local user store, a scheme-less path string to
\* the DataSet under that directory, an http or https URL to the HTTP fetch;
\* no such location ends in the 'can not fetch data' error.
C16_LoaderDispatch ==
  op.name = "load" =>
    /\ op.branch # "none"
    /\ loader.location = NoLoc => op.branch \in {"catalog", "userdata"}
    /\ loader.location = StrLoc("") => op.branch = "location"
    /\ loader.location \in {StrLoc("http"), StrLoc("https")} => op.branch = "http"

\* C17: each of two instances on one directory picks generations from its own
\* index alone: whenever the second instance saves a named item, the
\* generation is one more than that of the last handle its own index held,
\* whatever the directory holds - so when the first instance has just written
\* that generation, the second write lands on the first one's path.
Save2Step == op'.name = "save2"

C17_GenerationFromOwnIndex ==
  [][Save2Step =>
       \A i \in DOMAIN op'.named :
         LET k == op'.named[i][1]
             v == op'.named[i][2]
             g == IF k \in DOMAIN files2 /\ files2[k] # <<>> THEN GenOf(LastOf(files2[k])) ELSE 0
             p == SaveFile(k, g + 1, v)
         IN /\ p \in SeqToSet(op'.written)
            /\ LastOf(files2'[k]) = p
            /\ disk'[p].val = v
            /\ (assigned[k] = g + 1 /\ k \in DOMAIN files /\ files[k] # <<>> /\ LastOf(files[k]) = p)
                 => p \in DOMAIN disk /\ disk'[p].mtime > disk[p].mtime]_vars

\* both instances were opened on the same files; the first saved under a key,
\* then the second saved under it and wrote the path the first had written:
\* both indexes end on that path and the file holds the second value
C17_Witness ==
  /\ op.name = "save2"
  /\ \E i \in DOMAIN op.named :
       LET k == op.named[i][1]
           p == LastOf(files2[k])
       IN /\ assigned[k] = GenOf(p)
          /\ k \in DOMAIN files
          /\ files[k] # <<>>
          /\ LastOf(files[k]) = p
          /\ disk[p].val = op.named[i][2]
          /\ disk[p].mtime = clock
          /\ Len(files[k]) = Len(files2[k])

\* C18: for every key the sequence of handles the instance holds is the
\* sequence a construction on the directory as it is now would build, a key
\* missing on one side counting as the empty sequence.
C18_IndexAgreesWithDisk ==
  \A r \in MakeFileIndex(disk) : \A k \in Keys : Entries(files, k) = Entries(r.files, k)

\* C19: a last, an indexed access or an rm that ends in IndexError (the key
\* has no entry, or the integer index is out of range) leaves the files on
\* disk and the index as they were; the index, and so the textual summary,
\* lists no new key.
FailedAccess == op'.name \in {"last", "getitem", "rm"} /\ ret'.kind = "error" /\ ret'.err = "IndexError"

\* the lines of __repr__: every key of the index with the length of its list
Repr(f) == [k \in DOMAIN f |-> Len(f[k])]

C19_FailedCallChangesNothing ==
  [][FailedAccess => disk' = disk /\ files' = files /\ DOMAIN Repr(files') = DOMAIN Repr(files)]_vars

\* C20: every handle in the index of the parent and in the index of the
\* cached child refers to a file that exists, also after the parent's clean()
\* removed the directory tree.
HandlesExist(d, f) == \A k \in DOMAIN f : AllExist(d, f[k])

C20_EveryHandleExists ==
  /\ HandlesExist(disk, files)
  /\ sub.cached => HandlesExist(subdisk, sub.files)

====
